---- MODULE Spec2Model ----
(***************************************************************************)
(* lambda_handler: a router (LambdaHandler) that maps an untyped Lambda    *)
(* event to the handler registered for its (event type, event name).       *)
(*                                                                         *)
(* The router is built by chained route calls, then moved into the runtime *)
(* (lambda_runtime::run), which calls Service::call once per invocation    *)
(* and polls the future that call returns.                                 *)
(***************************************************************************)
EXTENDS Naturals, Sequences, FiniteSets, TLC

----------------------------------------------------------------------------
(* Bounds of the model *)

\* Longest "Records" array of a payload.
MaxRecords == 1

\* Largest number of entries the registry is grown to.
MaxEntries == 2

\* Most invocations whose futures are in flight at once (serving model).
MaxInFlight == 2

----------------------------------------------------------------------------
(* Values *)

\* Option<T>: None is the empty sequence, Some(x) the one-element sequence.
None == << >>
Some(x) == << x >>

\* TypeId::of::<S3Event>(), ::<SnsEvent>(), ::<SqsEvent>()
S3Event == "S3Event"
SnsEvent == "SnsEvent"
SqsEvent == "SqsEvent"
EventTypes == {S3Event, SnsEvent, SqsEvent}

\* Event names: the strings route is given and the records carry.
Keys == {"ka", "kb"}
KeyOpt == {None} \cup {Some(k) : k \in Keys}

\* One element of a payload's "Records" array, by the fields the three
\* schemas read: s3 = the fields S3EventRecord requires (eventTime,
\* userIdentity, requestParameters, s3) are present; eventName (S3, optional);
\* TopicArn = Sns.TopicArn with the other fields SnsRecord requires (SNS,
\* required: None when they are absent); eventSourceARN (SQS, optional).
Record == [s3 : BOOLEAN, eventName : KeyOpt, TopicArn : KeyOpt, eventSourceARN : KeyOpt]

\* The records drawn after the first one of a payload: the code reads keys
\* from records[0] only, so later records vary in what parsing tests (s3,
\* TopicArn present) and carry the other key wherever they carry one.
TailRecord == [s3 : BOOLEAN, eventName : {Some("kb")}, TopicArn : {None, Some("kb")},
               eventSourceARN : {Some("kb")}]

\* The "Records" arrays of 0..n records.
RecordLists(n) ==
    UNION {{rs \in [1..m -> Record] : \A j \in 2..m : rs[j] \in TailRecord} : m \in 0..n}

\* serde_json::Value payloads: a value with no usable "Records" array, or an
\* object with a "Records" array of record objects.
NoRecords == [Records |-> None]
Payloads == {NoRecords} \cup {[Records |-> Some(rs)] : rs \in RecordLists(MaxRecords)}

\* lambda_runtime::Context, by its request_id: the runtime gives every
\* invocation its own, here the number of the invocation's slot.
Context(i) == [request_id |-> i]

\* LambdaEvent<Value>
LambdaEvent(payload, context) == [payload |-> payload, context |-> context]

\* The user functions given to route: one that answers, one that fails.
HandlerFns == {"handle_event", "failing_handler"}

\* Result<T, E>
Ok(v) == [ok |-> TRUE, val |-> v]
Err(e) == [ok |-> FALSE, val |-> e]

\* A call that returns v, and one that panics (unwinds) with message m.
Returned(v) == [panicked |-> FALSE, val |-> v]
Panicked(m) == [panicked |-> TRUE, val |-> m]

\* The messages of the errors the router makes itself.
UnrecognizedShape == "Unable to get event type or name!"
NoHandlerRegistered == "I don't have a handler for this event!"
EventConversionFailed == "Failed to process event!"
ParseError == "Failed to parse event"
SerdeError == "serde_json::Error"

----------------------------------------------------------------------------
(* events.rs *)

\* The strict records of each event type: what deserialising keeps of a record.
StrictRecord(T, r) ==
    CASE T = S3Event  -> [event_name |-> r.eventName]
      [] T = SnsEvent -> [topic_arn |-> r.TopicArn[1]]
      [] T = SqsEvent -> [event_source_arn |-> r.eventSourceARN]

\* Whether a record satisfies the schema of T's records.
RecordMatches(T, r) ==
    CASE T = S3Event  -> r.s3
      [] T = SnsEvent -> r.TopicArn # None
      [] T = SqsEvent -> TRUE

\* Mutant of from_request: a missing "Records" array reads as an empty one
\* (as a #[serde(default)] on records would make it).
from_request_default_records(T, request) ==
    LET rs == IF request.Records = None THEN << >> ELSE request.Records[1] IN
    IF \A i \in 1..Len(rs) : RecordMatches(T, rs[i])
    THEN Ok([type |-> T, records |-> [i \in 1..Len(rs) |-> StrictRecord(T, rs[i])]])
    ELSE Err(SerdeError)

\* AwsEvent::from_request for Self = T: serde_json::from_value(request.clone()).
from_request(T, request) ==
    IF request.Records = None
    THEN Err(SerdeError)
    ELSE LET rs == request.Records[1] IN
         IF \A i \in 1..Len(rs) : RecordMatches(T, rs[i])
         THEN Ok([type |-> T, records |-> [i \in 1..Len(rs) |-> StrictRecord(T, rs[i])]])
         ELSE Err(SerdeError)

\* Mutant of from_event: the converted event gets a fresh Context::default()
\* in place of the invocation's.
from_event_default_context(T, event) ==
    LET deserialised == from_request(T, event.payload) IN
    IF deserialised.ok
    THEN Ok([payload |-> deserialised.val, context |-> [request_id |-> 0]])
    ELSE deserialised

\* AwsEvent::from_event for Self = T.
from_event(T, event) ==
    LET deserialised == from_request(T, event.payload) IN
    IF deserialised.ok
    THEN Ok([payload |-> deserialised.val, context |-> event.context])
    ELSE deserialised

\* AwsEvent::event_name of a parsed event: records[0] panics on an empty
\* list, expect panics on None.
event_name(self) ==
    IF Len(self.records) = 0
    THEN Panicked("index out of bounds")
    ELSE CASE self.type = S3Event ->
                IF self.records[1].event_name = None
                THEN Panicked("No event name!")
                ELSE Returned(self.records[1].event_name[1])
           [] self.type = SnsEvent ->
                Returned(self.records[1].topic_arn)
           [] self.type = SqsEvent ->
                IF self.records[1].event_source_arn = None
                THEN Panicked("No topic ARN!")
                ELSE Returned(self.records[1].event_source_arn[1])

\* A user function's future, polled to completion (the example's handlers
\* answer with the context's request id; the body tells the event it was given).
RunHandler(fn, event) ==
    IF fn = "handle_event"
    THEN Ok([req_id |-> event.context.request_id, body |-> event.payload.type])
    ELSE Err("handler failed")

\* The futures call returns: the user function applied to its event, or a
\* future that is ready with an error.
UserFuture(fn, event) == [kind |-> "user", fn |-> fn, event |-> event, err |-> ""]
ErrFuture(msg) == [kind |-> "ready", fn |-> "", event |-> None, err |-> msg]

\* Awaiting a future.
Await(future) ==
    IF future.kind = "user"
    THEN RunHandler(future.fn, future.event)
    ELSE Err(future.err)

\* Mutant of AwsEventHandler: the marker type is S3Event whatever the
\* handler's event type is.
AwsEventHandler_s3(T, fn) == [event_type |-> S3Event, handler |-> fn]

\* AwsEventHandler<T, R>::new
AwsEventHandler(T, fn) == [event_type |-> T, handler |-> fn]

\* Mutant of AwsEventHandler::call: the user handler is called twice and the
\* second future is returned.
AwsEventHandler_call_twice(self, event) ==
    LET res == from_event(self.event_type, event) IN
    IF res.ok
    THEN [future |-> UserFuture(self.handler, res.val),
          invoked |-> << [fn |-> self.handler, event |-> res.val],
                         [fn |-> self.handler, event |-> res.val] >>]
    ELSE [future |-> ErrFuture(EventConversionFailed), invoked |-> << >>]

\* <AwsEventHandler<T, R> as Callable<R>>::call: the future, and the user
\* functions it invoked to make it.
AwsEventHandler_call(self, event) ==
    LET res == from_event(self.event_type, event) IN
    IF res.ok
    THEN [future |-> UserFuture(self.handler, res.val),
          invoked |-> << [fn |-> self.handler, event |-> res.val] >>]
    ELSE [future |-> ErrFuture(EventConversionFailed), invoked |-> << >>]

----------------------------------------------------------------------------
(* handler.rs *)

\* get_event_key: the adapters are tried in the order S3, SNS, SQS; the
\* first that parses gives the key, and its event_name may panic.
KeyOf(T, parsed_event) ==
    LET name == event_name(parsed_event) IN
    IF name.panicked THEN name ELSE Returned(Ok(<< T, name.val >>))

\* Mutant of get_event_key: the SQS adapter is tried first.
get_event_key_sqs_first(event) ==
    IF from_request(SqsEvent, event.payload).ok
    THEN KeyOf(SqsEvent, from_request(SqsEvent, event.payload).val)
    ELSE IF from_request(S3Event, event.payload).ok
    THEN KeyOf(S3Event, from_request(S3Event, event.payload).val)
    ELSE IF from_request(SnsEvent, event.payload).ok
    THEN KeyOf(SnsEvent, from_request(SnsEvent, event.payload).val)
    ELSE Returned(Err(ParseError))

get_event_key(event) ==
    IF from_request(S3Event, event.payload).ok
    THEN KeyOf(S3Event, from_request(S3Event, event.payload).val)
    ELSE IF from_request(SnsEvent, event.payload).ok
    THEN KeyOf(SnsEvent, from_request(SnsEvent, event.payload).val)
    ELSE IF from_request(SqsEvent, event.payload).ok
    THEN KeyOf(SqsEvent, from_request(SqsEvent, event.payload).val)
    ELSE Returned(Err(ParseError))

\* LambdaHandler::new: HashMap::new()
new == << >>

\* Mutant of get: the lookup compares the event name and not the TypeId.
get_by_name(map, k) ==
    IF \E x \in DOMAIN map : x[2] = k[2]
    THEN Some(map[CHOOSE x \in DOMAIN map : x[2] = k[2]])
    ELSE None

\* HashMap::get: Some(value) or None
get(map, k) == IF k \in DOMAIN map THEN Some(map[k]) ELSE None

\* Mutant of insert: an occupied key keeps its value (entry().or_insert()).
insert_keep_first(map, k, v) ==
    [x \in DOMAIN map \cup {k} |-> IF x \in DOMAIN map THEN map[x] ELSE v]

\* Mutant of insert: the map is keyed by the event name alone, so an entry of
\* another event type with the same name is dropped.
insert_by_name(map, k, v) ==
    [x \in {y \in DOMAIN map : y[2] # k[2]} \cup {k} |-> IF x = k THEN v ELSE map[x]]

\* HashMap::insert
insert(map, k, v) == [x \in DOMAIN map \cup {k} |-> IF x = k THEN v ELSE map[x]]

\* Mutant of route: the entry is put in a fresh map instead of self.handlers.
route_fresh(self, name, E, handler) ==
    insert(new, << E, name >>, AwsEventHandler(E, handler))

\* LambdaHandler::route::<E, F, Fut>(self, event_name, handler)
route(self, name, E, handler) ==
    LET boxed_event_handler == AwsEventHandler(E, handler) IN
    insert(self, << E, name >>, boxed_event_handler)

\* Mutant of call_handlers: the entry is taken out of the map to be called
\* (HashMap::remove in place of get).
call_handlers_remove(self, req) ==
    LET event_key == get_event_key(req) IN
    IF ~event_key.panicked /\ event_key.val.ok
    THEN [x \in DOMAIN self \ {event_key.val.val} |-> self[x]]
    ELSE self

\* Mutant of call_handlers: the map is moved out of self (std::mem::take).
call_handlers_take(self, req) == << >>

\* What <LambdaHandler as Service>::call(&mut self, req) leaves in self.handlers.
call_handlers(self, req) == self

\* <LambdaHandler as Service>::call(&mut self, req): the key it computed,
\* then the future it returns and the user functions invoked, or the panic.
call(self, req) ==
    LET cloned_request == req
        event_key == get_event_key(cloned_request) IN
    IF event_key.panicked
    THEN [self |-> call_handlers(self, req), event_key |-> event_key,
          result |-> event_key, invoked |-> << >>]
    ELSE IF event_key.val.ok
    THEN LET key == event_key.val.val IN
         IF get(self, key) # None
         THEN LET c == AwsEventHandler_call(get(self, key)[1], req) IN
              [self |-> call_handlers(self, req), event_key |-> event_key,
               result |-> Returned(c.future), invoked |-> c.invoked]
         ELSE [self |-> call_handlers(self, req), event_key |-> event_key,
               result |-> Returned(ErrFuture(NoHandlerRegistered)), invoked |-> << >>]
    ELSE [self |-> call_handlers(self, req), event_key |-> event_key,
          result |-> Returned(ErrFuture(UnrecognizedShape)), invoked |-> << >>]

----------------------------------------------------------------------------
(* The program: main builds the router and hands it to the runtime *)

VARIABLES
    handlers,   \* LambdaHandler.handlers: (TypeId, String) -> Box<dyn Callable<R>>
    phase,      \* "Building": main still owns the router; "Serving": moved into run
    last_route, \* main's latest route call: its arguments and the entry its
                \* insert replaced (None before the first call)
    inv         \* the invocations of the runtime, by slot

vars == << handlers, phase, last_route, inv >>

\* An invocation slot with no invocation in it.
Idle == [status |-> "idle", req |-> None, event_key |-> None, future |-> None,
         outcome |-> None, invoked |-> << >>, prev |-> None]

Slots == DOMAIN inv

\* main: LambdaHandler::<Response>::new(). The runtime's loop takes the next
\* invocation when the last one has ended: one slot.
Init ==
    /\ handlers = new
    /\ phase = "Building"
    /\ last_route = None
    /\ inv = [i \in {1} |-> Idle]

\* main: .route(name, handler) with handler a function of LambdaEvent<E>
Route(name, E, fn) ==
    /\ << E, name >> \in DOMAIN handlers \/ Cardinality(DOMAIN handlers) < MaxEntries
    /\ handlers' = route(handlers, name, E, fn)
    /\ last_route' = Some([event_name |-> name, E |-> E, handler |-> fn,
                           replaced |-> get(handlers, << E, name >>)])
    /\ UNCHANGED << phase, inv >>

\* main chains one more route call, with any name, event type and function.
Build ==
    /\ phase = "Building"
    /\ \E name \in Keys, E \in EventTypes, fn \in HandlerFns : Route(name, E, fn)

\* main: lambda_runtime::run(handler) takes the router by value
Serve ==
    /\ phase = "Building"
    /\ phase' = "Serving"
    /\ UNCHANGED << handlers, last_route, inv >>

\* The slot after the runtime calls Service::call with req.
Called(req, c, prev) ==
    IF c.result.panicked
    THEN [status |-> "done", req |-> Some(req), event_key |-> Some(c.event_key),
          future |-> None, outcome |-> Some(c.result),
          invoked |-> c.invoked, prev |-> prev]
    ELSE [status |-> "pending", req |-> Some(req), event_key |-> Some(c.event_key),
          future |-> Some(c.result.val), outcome |-> None,
          invoked |-> c.invoked, prev |-> prev]

\* The runtime calls Service::call with req for a new invocation in slot i.
Call(i, req) ==
    LET c == call(handlers, req) IN
      /\ handlers' = c.self
      /\ inv' = [inv EXCEPT ![i] = Called(req, c, None)]
      /\ UNCHANGED << phase, last_route >>

\* An invocation arrives in slot i with any event.
Invoke(i) ==
    /\ phase = "Serving"
    /\ inv[i].status = "idle"
    /\ \E payload \in Payloads : Call(i, LambdaEvent(payload, Context(i)))

\* The runtime polls the future of invocation i to completion.
Poll(i) ==
    /\ inv[i].status = "pending"
    /\ inv' = [inv EXCEPT ![i].status = "done",
                          ![i].outcome = Some(Returned(Await(inv[i].future[1])))]
    /\ UNCHANGED << handlers, phase, last_route >>

\* The same event is delivered again: Service::call with the request of the
\* invocation that ended, whose key and outcome are kept for comparison.
Redeliver(i) ==
    /\ phase = "Serving"
    /\ inv[i].status = "done"
    /\ LET c == call(handlers, inv[i].req[1])
           was == [event_key |-> inv[i].event_key[1], outcome |-> inv[i].outcome[1],
                   invoked |-> inv[i].invoked] IN
         /\ handlers' = c.self
         /\ inv' = [inv EXCEPT ![i] = Called(inv[i].req[1], c, Some(was))]
    /\ UNCHANGED << phase, last_route >>

\* The runtime has reported the outcome of invocation i.
Finish(i) ==
    /\ inv[i].status = "done"
    /\ inv' = [inv EXCEPT ![i] = Idle]
    /\ UNCHANGED << handlers, phase, last_route >>

Next ==
    \/ Build
    \/ Serve
    \/ \E i \in Slots : Invoke(i)
    \/ \E i \in Slots : Poll(i)
    \/ \E i \in Slots : Finish(i)

Spec == Init /\ [][Next]_vars

\* The program with events that may be delivered again.
RedeliveryNext ==
    \/ Build
    \/ Serve
    \/ \E i \in Slots : Invoke(i)
    \/ \E i \in Slots : Poll(i)
    \/ \E i \in Slots : Redeliver(i)
    \/ \E i \in Slots : Finish(i)

RedeliverySpec == Init /\ [][RedeliveryNext]_vars

----------------------------------------------------------------------------
(* The runtime serving several invocations at once *)

\* A router as main builds it: chained route calls on new().
ServedRouter ==
    route(route(route(route(new,
        "ka", S3Event, "handle_event"),
        "kb", S3Event, "failing_handler"),
        "ka", SnsEvent, "handle_event"),
        "ka", SqsEvent, "handle_event")

\* The records the three event sources send: an S3 record (with or without
\* an event name), an SNS record, an SQS record (with or without a source ARN).
SourceRecord ==
    [s3 : {TRUE}, eventName : KeyOpt, TopicArn : {None}, eventSourceARN : {None}]
    \cup [s3 : {FALSE}, eventName : {None}, TopicArn : KeyOpt \ {None}, eventSourceARN : {None}]
    \cup [s3 : {FALSE}, eventName : {None}, TopicArn : {None}, eventSourceARN : KeyOpt]

\* The events of the concurrent invocations: no "Records", or records of the
\* sources, those after the first with the key "kb" where a source gives one.
ServedPayloads ==
    {NoRecords} \cup
    {[Records |-> Some(rs)] : rs \in
        UNION {{rs \in [1..m -> SourceRecord] :
                  \A j \in 2..m : \A f \in {"eventName", "TopicArn", "eventSourceARN"} :
                      rs[j][f] \in {None, Some("kb")}} : m \in 0..MaxRecords}}

\* The router has been handed to the runtime; nothing is in flight yet.
ServingInit ==
    /\ handlers = ServedRouter
    /\ phase = "Serving"
    /\ last_route = Some([event_name |-> "ka", E |-> SqsEvent, handler |-> "handle_event",
                          replaced |-> None])
    /\ inv = [i \in 1..MaxInFlight |-> Idle]

\* An invocation arrives in slot i while others may be in flight.
InvokeServed(i) ==
    /\ inv[i].status = "idle"
    /\ \E payload \in ServedPayloads : Call(i, LambdaEvent(payload, Context(i)))

ServingNext ==
    \/ \E i \in Slots : InvokeServed(i)
    \/ \E i \in Slots : Poll(i)
    \/ \E i \in Slots : Finish(i)

ServingSpec == ServingInit /\ [][ServingNext]_vars

----------------------------------------------------------------------------
(* Reading an invocation slot, and a payload as the schemas see it *)

Active(i) == inv[i].status # "idle"
Done(i) == inv[i].status = "done"
PayloadOf(i) == inv[i].req[1].payload
OutcomeOf(i) == inv[i].outcome[1]
EventKeyOf(i) == inv[i].event_key[1]

\* Equality of two Results, of two calls' results (a Result or a panic), and
\* of two futures, comparing values only where they are of one kind.
SameResult(a, b) == a.ok = b.ok /\ a.val = b.val
SameCall(a, b) ==
    /\ a.panicked = b.panicked
    /\ IF a.panicked THEN a.val = b.val ELSE SameResult(a.val, b.val)
SameFuture(a, b) ==
    /\ a.kind = b.kind
    /\ IF a.kind = "user" THEN a.fn = b.fn /\ a.event = b.event ELSE a.err = b.err

\* The invocation ended with the error future of message m.
FailedWith(i, m) == Done(i) /\ SameCall(OutcomeOf(i), Returned(Err(m)))

\* The invocation's future is the error future of message m.
PendingError(i, m) == SameFuture(inv[i].future[1], ErrFuture(m))

\* The payload has a "Records" array all of whose records fit T's schema.
Fits(T, payload) ==
    /\ payload.Records # None
    /\ \A j \in 1..Len(payload.Records[1]) :
         CASE T = S3Event  -> payload.Records[1][j].s3
           [] T = SnsEvent -> payload.Records[1][j].TopicArn # None
           [] T = SqsEvent -> TRUE

\* The event types declared before T in the order S3, SNS, SQS.
Before(T) ==
    CASE T = S3Event  -> {}
      [] T = SnsEvent -> {S3Event}
      [] T = SqsEvent -> {S3Event, SnsEvent}

\* T is the first event type, in that order, the payload fits.
FirstFit(T, payload) == Fits(T, payload) /\ \A U \in Before(T) : ~Fits(U, payload)

\* The discriminator of the first record under T, None when it has none.
Discriminator(T, payload) ==
    IF payload.Records = None \/ Len(payload.Records[1]) = 0
    THEN None
    ELSE CASE T = S3Event  -> payload.Records[1][1].eventName
           [] T = SnsEvent -> payload.Records[1][1].TopicArn
           [] T = SqsEvent -> payload.Records[1][1].eventSourceARN

\* The user functions invocation i called are those of the entries in es.
InvokedOnly(i, es) == \A n \in 1..Len(inv[i].invoked) : inv[i].invoked[n].fn \in es

----------------------------------------------------------------------------
(* Claims *)

\* C1: dispatch tries the adapters in the order S3, SNS, SQS and the first
\* that parses is authoritative: the key is that shape's tag and its first
\* record's discriminator, only the handler registered under that pair can
\* be invoked, and when that pair has no handler none is invoked, whatever
\* is registered for the later shapes the payload also fits.
C1_FirstAdapterWins ==
    \A i \in Slots : Active(i) =>
      \A T \in EventTypes : FirstFit(T, PayloadOf(i)) =>
        LET d == Discriminator(T, PayloadOf(i)) IN
        /\ d # None => SameCall(EventKeyOf(i), Returned(Ok(<< T, d[1] >>)))
        /\ d = None => EventKeyOf(i).panicked
        /\ IF d # None /\ << T, d[1] >> \in DOMAIN handlers
           THEN InvokedOnly(i, {handlers[<< T, d[1] >>].handler})
                /\ \A n \in 1..Len(inv[i].invoked) :
                     inv[i].invoked[n].event.payload.type = T
           ELSE inv[i].invoked = << >>

\* C1 witness: a payload that fits S3 and SQS ended without a handler for its
\* S3 key although its SQS key has one.
C1_Witness ==
    \E i \in Slots :
      /\ Done(i)
      /\ FirstFit(S3Event, PayloadOf(i)) /\ Fits(SqsEvent, PayloadOf(i))
      /\ Discriminator(S3Event, PayloadOf(i)) # None
      /\ << S3Event, Discriminator(S3Event, PayloadOf(i))[1] >> \notin DOMAIN handlers
      /\ Discriminator(SqsEvent, PayloadOf(i)) # None
      /\ << SqsEvent, Discriminator(SqsEvent, PayloadOf(i))[1] >> \in DOMAIN handlers
      /\ FailedWith(i, NoHandlerRegistered)

\* C2: a payload with a recognized shape and a key, for whose (tag, key) no
\* handler is registered, ends in NoHandlerRegistered and invokes no handler.
C2_UnregisteredKeyFails ==
    \A i \in Slots : Active(i) =>
      \A T \in EventTypes :
        LET d == Discriminator(T, PayloadOf(i)) IN
        (FirstFit(T, PayloadOf(i)) /\ d # None /\ << T, d[1] >> \notin DOMAIN handlers) =>
          /\ inv[i].invoked = << >>
          /\ inv[i].status = "pending" => PendingError(i, NoHandlerRegistered)
          /\ Done(i) => FailedWith(i, NoHandlerRegistered)

\* C2 witness: only a queue handler for "ka" is registered and a queue
\* payload from "kb" ended in NoHandlerRegistered.
C2_Witness ==
    \E i \in Slots :
      /\ Done(i)
      /\ DOMAIN handlers = {<< SqsEvent, "ka" >>}
      /\ FirstFit(SqsEvent, PayloadOf(i))
      /\ Discriminator(SqsEvent, PayloadOf(i)) = Some("kb")
      /\ FailedWith(i, NoHandlerRegistered)

\* C3: a payload no adapter parses ends in UnrecognizedShape, whatever the
\* registry holds, and invokes no handler.
C3_UnrecognizedShape ==
    \A i \in Slots : Active(i) =>
      ((\A T \in EventTypes : ~Fits(T, PayloadOf(i))) =>
        /\ inv[i].invoked = << >>
        /\ SameCall(EventKeyOf(i), Returned(Err(ParseError)))
        /\ inv[i].status = "pending" => PendingError(i, UnrecognizedShape)
        /\ Done(i) => FailedWith(i, UnrecognizedShape))

\* C3 witness: such a payload ended in UnrecognizedShape with handlers registered.
C3_Witness ==
    \E i \in Slots :
      /\ Done(i)
      /\ \A T \in EventTypes : ~Fits(T, PayloadOf(i))
      /\ DOMAIN handlers # {}
      /\ FailedWith(i, UnrecognizedShape)

\* C4: the handler stored for a (shape tag, key) pair is the one given by the
\* last route call for it: after a pair is registered twice, the entry holds
\* the second handler, and dispatching a matching payload invokes the second
\* handler once and the replaced one never.
C4_LastRouteWins ==
    last_route # None =>
      LET r == last_route[1]
          key == << r.E, r.event_name >> IN
      /\ key \in DOMAIN handlers
      /\ handlers[key].handler = r.handler
      /\ \A i \in Slots :
           (Active(i) /\ FirstFit(r.E, PayloadOf(i))
              /\ Discriminator(r.E, PayloadOf(i)) = Some(r.event_name)) =>
             /\ Len(inv[i].invoked) = 1
             /\ inv[i].invoked[1].fn = r.handler

\* C4 witness: the last route call replaced the failing handler of its pair
\* by the answering one, and a payload of that pair was answered.
C4_Witness ==
    /\ last_route # None
    /\ last_route[1].replaced # None
    /\ last_route[1].replaced[1].handler = "failing_handler"
    /\ last_route[1].handler = "handle_event"
    /\ \E i \in Slots :
         /\ Done(i)
         /\ FirstFit(last_route[1].E, PayloadOf(i))
         /\ Discriminator(last_route[1].E, PayloadOf(i)) = Some(last_route[1].event_name)
         /\ ~OutcomeOf(i).panicked /\ OutcomeOf(i).val.ok

\* C5 (as claimed): a payload that parses as a shape and whose first record
\* lacks the discriminator ends in an error returned as the invocation's
\* outcome, one that is neither UnrecognizedShape nor NoHandlerRegistered.
C5_MissingKeyIsReturnedError ==
    \A i \in Slots : Done(i) =>
      \A T \in EventTypes :
        (FirstFit(T, PayloadOf(i)) /\ Len(PayloadOf(i).Records[1]) > 0
           /\ Discriminator(T, PayloadOf(i)) = None) =>
          /\ ~OutcomeOf(i).panicked
          /\ ~OutcomeOf(i).val.ok
          /\ OutcomeOf(i).val.val \notin {UnrecognizedShape, NoHandlerRegistered}

\* C6: when the lookup succeeds the matched handler is invoked exactly once,
\* with the event of the registered type and the invocation's own context,
\* and the invocation ends in what that handler answers: its response, which
\* carries the request id dispatch was given, or its failure.
C6_HandlerInvokedOnceVerbatim ==
    \A i \in Slots : Active(i) =>
      \A key \in DOMAIN handlers :
        (~EventKeyOf(i).panicked /\ EventKeyOf(i).val.ok /\ EventKeyOf(i).val.val = key) =>
          /\ Len(inv[i].invoked) = 1
          /\ inv[i].invoked[1].fn = handlers[key].handler
          /\ inv[i].invoked[1].event.context = inv[i].req[1].context
          /\ inv[i].invoked[1].event.payload.type = key[1]
          /\ Done(i) =>
               SameCall(OutcomeOf(i),
                        IF handlers[key].handler = "handle_event"
                        THEN Returned(Ok([req_id |-> i, body |-> key[1]]))
                        ELSE Returned(Err("handler failed")))

\* C6 witness: an invocation ended with the response of its handler, which
\* carries the invocation's request id.
C6_Witness ==
    \E i \in Slots :
      /\ Done(i)
      /\ Len(inv[i].invoked) = 1
      /\ ~OutcomeOf(i).panicked /\ OutcomeOf(i).val.ok
      /\ OutcomeOf(i).val.val.req_id = inv[i].req[1].context.request_id

\* C7: registrations of one key string under two shape tags coexist: route
\* for (B, k) leaves the entry of (A, k) as it was, and with both registered
\* a payload of shape A with key k invokes A's handler, one of shape B B's.
C7_SameKeyTwoShapes ==
    /\ [][\A k \in Keys, A \in EventTypes, B \in EventTypes, fn \in HandlerFns :
            (A # B /\ Route(k, B, fn) /\ << A, k >> \in DOMAIN handlers) =>
              /\ << A, k >> \in DOMAIN handlers' /\ << B, k >> \in DOMAIN handlers'
              /\ handlers'[<< A, k >>] = handlers[<< A, k >>]]_vars
    /\ [](\A i \in Slots, k \in Keys, A \in EventTypes, B \in EventTypes :
            (/\ Active(i) /\ A # B
             /\ << A, k >> \in DOMAIN handlers /\ << B, k >> \in DOMAIN handlers
             /\ FirstFit(A, PayloadOf(i)) /\ Discriminator(A, PayloadOf(i)) = Some(k)) =>
              /\ Len(inv[i].invoked) = 1
              /\ inv[i].invoked[1].fn = handlers[<< A, k >>].handler
              /\ inv[i].invoked[1].event.payload.type = A)

\* C7 witness: "ka" is registered for SNS with the failing handler and for
\* SQS with the answering one, and an SQS payload with "ka" was answered.
C7_Witness ==
    /\ << SnsEvent, "ka" >> \in DOMAIN handlers
    /\ << SqsEvent, "ka" >> \in DOMAIN handlers
    /\ handlers[<< SnsEvent, "ka" >>].handler = "failing_handler"
    /\ handlers[<< SqsEvent, "ka" >>].handler = "handle_event"
    /\ \E i \in Slots :
         /\ Done(i)
         /\ FirstFit(SqsEvent, PayloadOf(i))
         /\ Discriminator(SqsEvent, PayloadOf(i)) = Some("ka")
         /\ ~OutcomeOf(i).panicked /\ OutcomeOf(i).val.ok

\* C8: dispatch does not mutate the registry: over every step of an
\* invocation (the call, the poll of its future, its end), whatever its
\* outcome, the entries of the registry are the same after as before.
C8_DispatchLeavesRegistry == [][inv' # inv => handlers' = handlers]_vars

\* C8 witness: a dispatch has ended with a handler's result on a registry
\* that holds entries.
C8_Witness ==
    \E i \in Slots :
      /\ Done(i)
      /\ Len(inv[i].invoked) = 1
      /\ DOMAIN handlers # {}

\* C9: with construction finished, every invocation in flight has the key,
\* the handler call and the outcome that dispatch of its request alone on
\* the router gives, whatever the other invocations are doing, and a pending
\* one can always be polled to its end.
C9_ConcurrentDispatchIndependent ==
    \A i \in Slots : Active(i) =>
      LET alone == call(ServedRouter, inv[i].req[1]) IN
      /\ SameCall(EventKeyOf(i), alone.event_key)
      /\ inv[i].invoked = alone.invoked
      /\ inv[i].status = "pending" =>
           /\ ~alone.result.panicked
           /\ SameFuture(inv[i].future[1], alone.result.val)
           /\ ENABLED Poll(i)
      /\ Done(i) =>
           SameCall(OutcomeOf(i),
                    IF alone.result.panicked THEN alone.result
                    ELSE Returned(Await(alone.result.val)))

\* C9 witness: two invocations of the same event overlap, one still pending
\* and one ended, each with its handler invoked.
C9_Witness ==
    \E i \in Slots, j \in Slots :
      /\ i # j
      /\ inv[i].status = "pending" /\ Done(j)
      /\ PayloadOf(i) = PayloadOf(j)
      /\ Len(inv[i].invoked) = 1 /\ Len(inv[j].invoked) = 1

\* C10: dispatching the same payload and context again on the same router
\* gives the same key (or the same failure to get one), invokes the same
\* handler with the same event, and ends in the same outcome.
C10_RedeliveryIdempotent ==
    \A i \in Slots : (Active(i) /\ inv[i].prev # None) =>
      /\ SameCall(EventKeyOf(i), inv[i].prev[1].event_key)
      /\ inv[i].invoked = inv[i].prev[1].invoked
      /\ Done(i) => SameCall(OutcomeOf(i), inv[i].prev[1].outcome)

\* C10 witness: an event delivered a second time was answered again.
C10_Witness ==
    \E i \in Slots :
      /\ Done(i)
      /\ inv[i].prev # None
      /\ Len(inv[i].invoked) = 1
      /\ ~OutcomeOf(i).panicked /\ OutcomeOf(i).val.ok

\* C11 (as claimed): on the router new() returns, before any route call,
\* every dispatch invokes no handler and ends in a returned failure:
\* NoHandlerRegistered for a payload with a recognized shape and a key,
\* UnrecognizedShape for every other payload.
C11_NewRouterFailsEveryDispatch ==
    (handlers = new /\ last_route = None) =>
      \A i \in Slots : Done(i) =>
        /\ inv[i].invoked = << >>
        /\ IF \E T \in EventTypes :
                FirstFit(T, PayloadOf(i)) /\ Discriminator(T, PayloadOf(i)) # None
           THEN FailedWith(i, NoHandlerRegistered)
           ELSE FailedWith(i, UnrecognizedShape)

\* C12 (as claimed): every dispatch ends in one outcome that is returned to
\* the runtime, a response or a failure value; none aborts the invocation,
\* a payload with an empty record list included.
C12_EveryDispatchReturns ==
    \A i \in Slots : Done(i) => ~OutcomeOf(i).panicked

\* C13: every entry of a registry built by new() and route calls converts
\* events to the type of the tag it is stored under, so wherever dispatch
\* finds a handler the conversion of the payload succeeds: no dispatch has
\* the EventConversionFailed error as its future or its outcome.
C13_EntryTypeMatchesTag ==
    /\ \A key \in DOMAIN handlers : handlers[key].event_type = key[1]
    /\ \A i \in Slots : Active(i) =>
         /\ inv[i].status = "pending" => ~PendingError(i, EventConversionFailed)
         /\ ~FailedWith(i, EventConversionFailed)
         /\ \A key \in DOMAIN handlers :
              (~EventKeyOf(i).panicked /\ EventKeyOf(i).val.ok /\ EventKeyOf(i).val.val = key) =>
                from_request(handlers[key].event_type, PayloadOf(i)).ok

\* C13 witness: with entries under two tags registered, a payload that fits
\* SQS only found its handler, which was given the event as an SqsEvent.
C13_Witness ==
    /\ \E k1 \in DOMAIN handlers, k2 \in DOMAIN handlers : k1[1] # k2[1]
    /\ \E i \in Slots :
         /\ Done(i)
         /\ FirstFit(SqsEvent, PayloadOf(i))
         /\ Len(inv[i].invoked) = 1
         /\ inv[i].invoked[1].event.payload.type = SqsEvent

\* C14: a route call for (E, name) changes only the registry entry of
\* << E, name >>: every other entry stays as it was, no entry is removed, the
\* number of entries grows by one if the pair was absent and is the same if
\* it was present, and the pair's entry holds the handler given.
C14_RouteChangesOneEntry ==
    [][\A name \in Keys, E \in EventTypes, fn \in HandlerFns :
         Route(name, E, fn) =>
           LET key == << E, name >> IN
           /\ \A k \in DOMAIN handlers \ {key} :
                k \in DOMAIN handlers' /\ handlers'[k] = handlers[k]
           /\ DOMAIN handlers \subseteq DOMAIN handlers'
           /\ DOMAIN handlers' \subseteq DOMAIN handlers \cup {key}
           /\ key \in DOMAIN handlers' /\ handlers'[key].handler = fn
           /\ Cardinality(DOMAIN handlers') =
                IF key \in DOMAIN handlers
                THEN Cardinality(DOMAIN handlers)
                ELSE Cardinality(DOMAIN handlers) + 1]_vars

\* C14 witness: the last route call replaced the entry of a pair that was
\* present, with a function other than the one it held, while another pair
\* was registered, and the registry has two entries.
C14_Witness ==
    /\ last_route # None
    /\ last_route[1].replaced # None
    /\ last_route[1].replaced[1].handler # last_route[1].handler
    /\ Cardinality(DOMAIN handlers) = 2

\* C15: a dispatch invokes at most one user handler; it invokes one only
\* when a shape parsed, a key was extracted and the registry holds an entry
\* for that (shape, key), whose handler is the one invoked; and a dispatch
\* that ends at the router (unrecognized shape, no key, no handler
\* registered, conversion failed) has invoked no handler.
C15_AtMostOneHandlerAfterLookup ==
    \A i \in Slots : Active(i) =>
      /\ Len(inv[i].invoked) <= 1
      /\ Len(inv[i].invoked) = 1 =>
           /\ ~EventKeyOf(i).panicked /\ EventKeyOf(i).val.ok
           /\ LET key == EventKeyOf(i).val.val IN
              /\ FirstFit(key[1], PayloadOf(i))
              /\ Discriminator(key[1], PayloadOf(i)) = Some(key[2])
              /\ key \in DOMAIN handlers
              /\ inv[i].invoked[1].fn = handlers[key].handler
      /\ ( \/ EventKeyOf(i).panicked
           \/ ~EventKeyOf(i).val.ok
           \/ EventKeyOf(i).val.val \notin DOMAIN handlers
           \/ FailedWith(i, UnrecognizedShape)
           \/ FailedWith(i, NoHandlerRegistered)
           \/ FailedWith(i, EventConversionFailed) ) => inv[i].invoked = << >>

\* C15 witness: a dispatch that found the failing handler invoked it once and
\* ended with that handler's own error.
C15_Witness ==
    \E i \in Slots :
      /\ Done(i)
      /\ Len(inv[i].invoked) = 1
      /\ inv[i].invoked[1].fn = "failing_handler"
      /\ ~OutcomeOf(i).panicked /\ ~OutcomeOf(i).val.ok

====
